---------------------------- MODULE Spec2Model ----------------------------
(***************************************************************************)
(* A model of the linked lists of rust_algorithms.                         *)
(*                                                                         *)
(* KolzoLinkedList (src/linked_list/src/algorithm.rs) owns its nodes        *)
(* through head and the nodes' next links (Option<Box<Node<T>>>) and keeps *)
(* a raw, non-owning tail pointer (Option<*mut Node<T>>) beside a u64       *)
(* length.  The model keeps the allocator's memory as a heap of cells       *)
(* indexed by address, so that a raw pointer to a node that has been        *)
(* dropped, and the reuse of its address by a later Box::new, are states    *)
(* of the model.                                                            *)
(***************************************************************************)
EXTENDS Integers, Sequences, FiniteSets, TLC

(***************************************************************************)
(* Bounds of the model.                                                     *)
(***************************************************************************)
\* Addresses the allocator can hand out: at most NumAddr nodes exist at once.
NumAddr == 3
\* Element values 1..NumValues stand for the values of type T.
NumValues == 2
\* The i64 index arguments tried are -1..MaxIndex.
MaxIndex == 3
\* No call is explored that would leave length above MaxLength ...
MaxLength == 4
\* ... or, once it has wrapped below 0, under 2^64 - MaxWrap.
MaxWrap == 2
\* The longest run of appends the scripted specification builds a list from.
MaxAppends == 3
\* The longest run of prepends the scripted specification makes.
MaxPrepends == 3

NULL == 0
Addr == 1..NumAddr
Value == 1..NumValues
Index == (0 - 1)..MaxIndex

\* Option<T>: None and Some(v).
None == <<>>
Some(v) == <<v>>

\* The memory of a node that is not allocated (never was, or was dropped).
Freed == [alive |-> FALSE, data |-> 0, next |-> NULL]
\* Node::new(value): data = value, next = None.
Node(value) == [alive |-> TRUE, data |-> value, next |-> NULL]

VARIABLES
    heap,             \* address -> the node's memory: [alive, data, next]
    head,             \* KolzoLinkedList.head: the first node's address or NULL
    tail,             \* KolzoLinkedList.tail: a raw pointer, an address or NULL
    length,           \* KolzoLinkedList.length: u64; a negative l stands for 2^64 + l
    fault,            \* "none", "panic" (an overflow panic) or "crash" (the outcome
                      \* of undefined behaviour that ends the process)
    ret,              \* what the last call returned (None for a call returning ())
    overflow_checks,  \* the build profile: TRUE in debug builds (arithmetic overflow
                      \* panics), FALSE in release builds (it wraps)
    trace             \* the calls made since new(), kept by the scripted specification

vars == <<heap, head, tail, length, fault, ret, overflow_checks, trace>>

\* The list (and the process's memory) as one value, for the operations below.
State ==
    [heap |-> heap, head |-> head, tail |-> tail, length |-> length,
     fault |-> fault, ret |-> ret]

\* KolzoLinkedList::new(): head None, tail None, length 0; no node allocated.
new ==
    [heap |-> [a \in Addr |-> Freed], head |-> NULL, tail |-> NULL, length |-> 0,
     fault |-> "none", ret |-> None]

FreeAddr(h) == {a \in Addr : ~h[a].alive}

(***************************************************************************)
(* u64 arithmetic on length.  length holds the signed representative of a  *)
(* u64 near 0 or near 2^64: l >= 0 stands for l, l < 0 for 2^64 + l.        *)
(***************************************************************************)
\* `index as u64 >= self.length` for an index >= 0.
GeLength(index, l) == l >= 0 /\ index >= l
\* `index as u64 == l` for an index >= 0.
EqLength(index, l) == l >= 0 /\ index = l

\* self.length += 1
AddOne(s) ==
    IF s.length = 0 - 1
    THEN IF overflow_checks THEN [s EXCEPT !.fault = "panic"]
                            ELSE [s EXCEPT !.length = 0]
    ELSE [s EXCEPT !.length = @ + 1]

\* self.length -= 1
SubOne(s) ==
    IF s.length = 0
    THEN IF overflow_checks THEN [s EXCEPT !.fault = "panic"]
                            ELSE [s EXCEPT !.length = 0 - 1]
    ELSE [s EXCEPT !.length = @ - 1]

\* The value a call returns, when it returns.
Return(s, r) == IF s.fault = "none" THEN [s EXCEPT !.ret = r] ELSE s

(***************************************************************************)
(* Walking and dropping chains of nodes.                                    *)
(***************************************************************************)
RECURSIVE Walk(_, _, _)
\* The addresses met by following next from a, at most fuel of them.
Walk(h, a, fuel) ==
    IF a = NULL \/ fuel = 0 THEN <<>>
    ELSE <<a>> \o Walk(h, h[a].next, fuel - 1)

\* The chain of nodes from a, in order.
Chain(h, a) == Walk(h, a, NumAddr)

\* Following next from a never ends: a node would be dropped twice.
Cyclic(h, a) == Len(Walk(h, a, NumAddr + 1)) > NumAddr

\* Dropping the Box at a drops its node and, through next, the chain behind it.
DropChain(h, a) ==
    LET gone == {Chain(h, a)[i] : i \in 1..Len(Chain(h, a))}
    IN [x \in Addr |-> IF x \in gone THEN Freed ELSE h[x]]

(***************************************************************************)
(* The operations of KolzoLinkedList, each a function of the state before  *)
(* the call and the call's arguments.  A call that allocates takes the      *)
(* address a the allocator returns, any free one.                           *)
(***************************************************************************)

\* append's `match self.tail`: the new node becomes the head of an empty list
\* or the next of the node tail points to.
\* `(*tail_pointer).next = Some(new_node)` writes through the
\* raw tail pointer.  If the node tail points to was dropped and its address
\* not handed out again, the write is a use after free, whose outcome ub is
\* "crash" (the process ends) or "store" (the write lands in the freed
\* memory and the list's chain never sees the new node).  If the address was
\* handed out again, to this call's new node included, the write lands in
\* the node that lives there now.  The assignment drops the old value of
\* that next link, and with it the chain behind it.
LinkAtTail(s, value, a, ub) ==
    LET h1 == [s.heap EXCEPT ![a] = Node(value)]
        t == s.tail
    IN IF t = NULL
       THEN [s EXCEPT !.heap = DropChain(h1, s.head), !.head = a]
       ELSE IF h1[t].alive
       THEN IF Cyclic(h1, h1[t].next)
            THEN [s EXCEPT !.heap = h1, !.fault = "crash"]
            ELSE [s EXCEPT !.heap =
                      [DropChain(h1, h1[t].next) EXCEPT ![t].next = a]]
       ELSE IF ub = "crash"
            THEN [s EXCEPT !.heap = h1, !.fault = "crash"]
            ELSE [s EXCEPT !.heap = [h1 EXCEPT ![t].next = a]]

\* A faulty variant of append, which C7 must tell from it:
\* `self.tail = Some(new_node_pointer)` is left out.
append_tail_kept(s, value, a, ub) ==
    LET linked == LinkAtTail(s, value, a, ub)
    IN IF linked.fault # "none" THEN linked
       ELSE Return(AddOne(linked), None)

\* append(value): link the new node, then tail = the new node, length += 1.
append(s, value, a, ub) ==
    LET linked == LinkAtTail(s, value, a, ub)
    IN IF linked.fault # "none" THEN linked
       ELSE Return(AddOne([linked EXCEPT !.tail = a]), None)

\* A faulty variant of BeforeLast, which C8 must tell from it: the walk stops
\* at the first node, without looking whether the node after it is the last.
BeforeLast_first(h, n) == n

RECURSIVE BeforeLast(_, _)
\* pop's loop: the first node from n whose next node has no next; NULL when
\* the walk runs off the chain.
BeforeLast(h, n) ==
    IF n = NULL THEN NULL
    ELSE IF h[n].next # NULL /\ h[h[n].next].next = NULL THEN n
    ELSE BeforeLast(h, h[n].next)

\* pop() -> Option<T>
pop(s) ==
    IF s.head = NULL THEN Return(s, None)
    ELSE IF s.heap[s.head].next = NULL
    THEN \* self.head.take().map(|head| { tail = None; length -= 1; head.data })
         Return(SubOne([s EXCEPT !.heap = [@ EXCEPT ![s.head] = Freed],
                                 !.head = NULL, !.tail = NULL]),
                Some(s.heap[s.head].data))
    ELSE LET node == BeforeLast(s.heap, s.head)
             last == s.heap[node].next
         IN IF node = NULL THEN Return(s, None)
            ELSE \* node.next.take().map(|tail| { tail = node; length -= 1; tail.data })
                 Return(SubOne([s EXCEPT !.heap = [@ EXCEPT ![node].next = NULL,
                                                            ![last] = Freed],
                                         !.tail = node]),
                        Some(s.heap[last].data))

\* A faulty variant of prepend, which C16 must tell from it: the
\* `if self.head.is_none() { self.tail = ... }` is left out.
prepend_tail_unset(s, value, a) ==
    LET h1 == [s.heap EXCEPT ![a] = [Node(value) EXCEPT !.next = s.head]]
    IN Return(AddOne([s EXCEPT !.heap = h1, !.head = a]), None)

\* prepend(value)
prepend(s, value, a) ==
    LET h1 == [s.heap EXCEPT ![a] = [Node(value) EXCEPT !.next = s.head]]
    IN Return(AddOne([s EXCEPT !.heap = h1,
                               !.tail = IF s.head = NULL THEN a ELSE @,
                               !.head = a]),
              None)

\* A faulty variant of pop_first, which C17 must tell from it: `length -= 1`
\* is also done on the empty list, before None is returned.
pop_first_counted(s) ==
    IF s.head = NULL THEN Return(SubOne(s), None)
    ELSE LET node == s.head
             rest == s.heap[node].next
         IN Return([s EXCEPT !.heap = [@ EXCEPT ![node] = Freed],
                             !.head = rest,
                             !.tail = IF rest = NULL THEN NULL ELSE @],
                   Some(s.heap[node].data))

\* A faulty variant of pop_first, which C9 must tell from it: after
\* `self.head.take()` the rest of the chain is not put back as head, and is
\* dropped with the first node.
pop_first_rest_lost(s) ==
    IF s.head = NULL THEN Return(s, None)
    ELSE Return([s EXCEPT !.heap = DropChain(@, s.head),
                          !.head = NULL, !.tail = NULL],
                Some(s.heap[s.head].data))

\* pop_first() -> Option<T>: length is left as it is.
pop_first(s) ==
    IF s.head = NULL THEN Return(s, None)
    ELSE LET node == s.head
             rest == s.heap[node].next
         IN Return([s EXCEPT !.heap = [@ EXCEPT ![node] = Freed],
                             !.head = rest,
                             !.tail = IF rest = NULL THEN NULL ELSE @],
                   Some(s.heap[node].data))

\* A faulty variant of OutOfRange, which C18 must tell from it: the test is
\* `index as u64 > self.length`, so an index equal to the length passes.
OutOfRange_past_end(index, l) == index < 0 \/ (l >= 0 /\ index > l)

\* `index.is_negative() || index as u64 >= self.length`
OutOfRange(index, l) == index < 0 \/ GeLength(index, l)

RECURSIVE NodeAt(_, _, _)
\* The loop of get and set: the count-th node from n (NULL off the chain).
NodeAt(h, n, count) ==
    IF n = NULL THEN NULL
    ELSE IF count = 0 THEN n
    ELSE NodeAt(h, h[n].next, count - 1)

\* A faulty variant of get, which C13 must tell from it: the test of the
\* index against length is left out, and only the walk decides.
get_unchecked(s, index) ==
    LET node == NodeAt(s.heap, s.head, index)
    IN IF node = NULL THEN None ELSE Some(s.heap[node].data)

\* get(index) -> Option<&T>: the value returned; &self, nothing changes.
get(s, index) ==
    IF OutOfRange(index, s.length) THEN None
    ELSE LET node == NodeAt(s.heap, s.head, index)
         IN IF node = NULL THEN None ELSE Some(s.heap[node].data)

\* set(index, value) -> Option<T>
set(s, index, value) ==
    IF OutOfRange(index, s.length) THEN Return(s, None)
    ELSE LET node == NodeAt(s.heap, s.head, index)
         IN IF node = NULL THEN Return(s, None)
            ELSE Return([s EXCEPT !.heap = [@ EXCEPT ![node].data = value]],
                        Some(s.heap[node].data))

\* insert(index, value).  The first test is the one of get, set and remove,
\* `index as u64 >= self.length`; the splice adds nothing to length.
insert(s, index, value, a, ub) ==
    IF OutOfRange(index, s.length) THEN Return(s, None)
    ELSE IF index = 0 THEN prepend(s, value, a)
    ELSE IF EqLength(index, s.length) THEN append(s, value, a, ub)
    ELSE LET node == NodeAt(s.heap, s.head, index - 1)
         IN IF node = NULL THEN Return(s, None)
            ELSE Return([s EXCEPT !.heap =
                            [@ EXCEPT ![a] = [Node(value) EXCEPT
                                                 !.next = s.heap[node].next],
                                      ![node].next = a]],
                        None)

\* remove(index).  `Some(last_node).take()` takes a temporary Option holding a
\* reference: the last node stays linked, tail moves to the node before it.
remove(s, index) ==
    IF OutOfRange(index, s.length) THEN Return(s, None)
    ELSE IF index = 0 THEN Return(SubOne(pop_first(s)), None)
    ELSE LET node == NodeAt(s.heap, s.head, index - 1)
             after == s.heap[node].next
         IN IF node = NULL THEN Return(s, None)
            ELSE IF EqLength(index, s.length - 1)
            THEN IF after # NULL
                 THEN Return(SubOne([s EXCEPT !.tail = node]), None)
                 ELSE Return(SubOne(s), None)
            ELSE IF after # NULL
                 THEN Return(SubOne([s EXCEPT !.heap =
                                        [@ EXCEPT ![node].next = s.heap[after].next,
                                                  ![after] = Freed]]),
                             None)
                 ELSE Return(SubOne(s), None)

RECURSIVE Relink_unlinked(_, _, _)
\* A faulty variant of Relink, which C10 must tell from it:
\* `node_that_is_iterated.next = previous_node` is left out, so each node ends
\* with no next and the node before it is dropped.
Relink_unlinked(h, current_node, previous_node) ==
    IF current_node = NULL THEN [heap |-> h, previous_node |-> previous_node]
    ELSE Relink_unlinked(
             [x \in Addr |-> IF x = previous_node THEN Freed
                             ELSE IF x = current_node THEN [h[x] EXCEPT !.next = NULL]
                             ELSE h[x]],
             h[current_node].next, current_node)

RECURSIVE Relink(_, _, _)
\* reverse's loop: each node from current_node gets the node before it as its
\* next; the result is the heap and the last node met (previous_node).
Relink(h, current_node, previous_node) ==
    IF current_node = NULL THEN [heap |-> h, previous_node |-> previous_node]
    ELSE Relink([h EXCEPT ![current_node].next = previous_node],
                h[current_node].next, current_node)

\* A faulty variant of reverse, which C15 must tell from it:
\* `self.head = previous_node` is left out, so head stays None after take()
\* and the relinked chain is dropped when the call returns.
reverse_head_lost(s) ==
    Return([s EXCEPT !.heap = DropChain(@, s.head), !.head = NULL], None)

\* reverse(): tail and length are left as they are.
reverse(s) ==
    LET r == Relink(s.heap, s.head, NULL)
    IN Return([s EXCEPT !.heap = r.heap, !.head = r.previous_node], None)

(***************************************************************************)
(* The state machine: any call on a list made by new().                     *)
(***************************************************************************)
Init ==
    /\ heap = new.heap
    /\ head = new.head
    /\ tail = new.tail
    /\ length = new.length
    /\ fault = new.fault
    /\ ret = new.ret
    /\ overflow_checks \in BOOLEAN
    /\ trace = <<>>

\* What bounds the exploration: the process is running, and the call leaves
\* length within MaxLength of 0 (MaxWrap below it, once wrapped).
Explored(s) == (0 - MaxWrap) <= s.length /\ s.length <= MaxLength

\* The call's result becomes the state.
Becomes(s) ==
    /\ fault = "none"
    /\ Explored(s)
    /\ heap' = s.heap
    /\ head' = s.head
    /\ tail' = s.tail
    /\ length' = s.length
    /\ fault' = s.fault
    /\ ret' = s.ret
    /\ UNCHANGED overflow_checks

\* One entry of trace: the call, its arguments (0 where it has none), the
\* address the allocator gave it (NULL where it allocates nothing) and what
\* it returned.
Called(op, index, value, a, r) ==
    [op |-> op, index |-> index, value |-> value, addr |-> a, ret |-> r]

StepAppend(value, a, ub) == Becomes(append(State, value, a, ub))
StepPop == Becomes(pop(State))
StepPrepend(value, a) == Becomes(prepend(State, value, a))
StepPopFirst == Becomes(pop_first(State))
StepGet(index) == Becomes([State EXCEPT !.ret = get(State, index)])
StepSet(index, value) == Becomes(set(State, index, value))
StepInsert(index, value, a, ub) == Becomes(insert(State, index, value, a, ub))
StepRemove(index) == Becomes(remove(State, index))
StepReverse == Becomes(reverse(State))

CallAppend ==
    \E value \in Value, a \in FreeAddr(heap), ub \in {"crash", "store"} :
        StepAppend(value, a, ub) /\ UNCHANGED trace

CallPop == StepPop /\ UNCHANGED trace

CallPrepend ==
    \E value \in Value, a \in FreeAddr(heap) :
        StepPrepend(value, a) /\ UNCHANGED trace

CallPopFirst == StepPopFirst /\ UNCHANGED trace

CallGet == \E index \in Index : StepGet(index) /\ UNCHANGED trace

CallSet == \E index \in Index, value \in Value : StepSet(index, value) /\ UNCHANGED trace

CallInsert ==
    \E index \in Index, value \in Value, a \in FreeAddr(heap), ub \in {"crash", "store"} :
        StepInsert(index, value, a, ub) /\ UNCHANGED trace

CallRemove == \E index \in Index : StepRemove(index) /\ UNCHANGED trace

CallReverse == StepReverse /\ UNCHANGED trace

Next ==
    \/ CallAppend
    \/ CallPop
    \/ CallPrepend
    \/ CallPopFirst
    \/ CallGet
    \/ CallSet
    \/ CallInsert
    \/ CallRemove
    \/ CallReverse

Spec == Init /\ [][Next]_vars

(***************************************************************************)
(* The scripted specification: a list built by appends onto new(), then    *)
(* drained by pop (and appended to once more), drained by pop_first, or     *)
(* reversed twice; or a list built by prepends onto new().  trace keeps     *)
(* the calls made.                                                          *)
(***************************************************************************)
\* The number of appends trace starts with.
LeadingAppends(t) ==
    CHOOSE n \in 0..Len(t) :
        /\ \A i \in 1..n : t[i].op = "append"
        /\ n = Len(t) \/ t[n + 1].op # "append"

\* trace is some appends followed only by calls of op.
AppendsThen(t, op) == \A i \in (LeadingAppends(t) + 1)..Len(t) : t[i].op = op

\* The calls of trace after the leading appends.
Following(t) == Len(t) - LeadingAppends(t)

\* N appends, then N pops and the pop that finds the list empty.
Drained(t) == AppendsThen(t, "pop") /\ Following(t) = LeadingAppends(t) + 1

ScriptAppend ==
    /\ \/ Following(trace) = 0 /\ Len(trace) < MaxAppends
       \/ Drained(trace)
    /\ \E value \in Value, a \in FreeAddr(heap), ub \in {"crash", "store"} :
           /\ StepAppend(value, a, ub)
           /\ trace' = Append(trace, Called("append", 0, value, a, ret'))

ScriptPop ==
    /\ AppendsThen(trace, "pop")
    /\ Following(trace) <= LeadingAppends(trace)
    /\ StepPop
    /\ trace' = Append(trace, Called("pop", 0, 0, NULL, ret'))

ScriptPopFirst ==
    /\ AppendsThen(trace, "pop_first")
    /\ Following(trace) <= LeadingAppends(trace)
    /\ StepPopFirst
    /\ trace' = Append(trace, Called("pop_first", 0, 0, NULL, ret'))

ScriptReverse ==
    /\ AppendsThen(trace, "reverse")
    /\ Following(trace) < 2
    /\ StepReverse
    /\ trace' = Append(trace, Called("reverse", 0, 0, NULL, ret'))

\* Prepends onto new(), and nothing else.
ScriptPrepend ==
    /\ LeadingAppends(trace) = 0
    /\ AppendsThen(trace, "prepend")
    /\ Len(trace) < MaxPrepends
    /\ \E value \in Value, a \in FreeAddr(heap) :
           /\ StepPrepend(value, a)
           /\ trace' = Append(trace, Called("prepend", 0, value, a, ret'))

NextScript ==
    \/ ScriptAppend
    \/ ScriptPop
    \/ ScriptPopFirst
    \/ ScriptReverse
    \/ ScriptPrepend

SpecScript == Init /\ [][NextScript]_vars

(***************************************************************************)
(* KolzoDoublyLinkedList (src/double_linked_list/src/algorithm.rs).  Its    *)
(* fields head, tail and length are kept in the variables of those names,  *)
(* and heap holds its nodes, which have a previous link besides next.  Both *)
(* links are Option<Box<Node<T>>>: a link that is present owns the node it  *)
(* points to.  Only new, print and append have a body; pop, prepend,        *)
(* pop_first, get, set, insert and remove are empty and print only reads,   *)
(* so a call of any of them is a step that changes nothing.                 *)
(***************************************************************************)
\* The memory of a node of the doubly linked list that is not allocated.
DoublyFreed == [alive |-> FALSE, data |-> 0, previous |-> NULL, next |-> NULL]
\* Node::new(value): data = value, previous = None, next = None.
DoublyNode(value) ==
    [alive |-> TRUE, data |-> value, previous |-> NULL, next |-> NULL]

\* KolzoDoublyLinkedList::new(): head None, tail None, length 0.
doubly_new ==
    [heap |-> [a \in Addr |-> DoublyFreed], head |-> NULL, tail |-> NULL,
     length |-> 0, fault |-> "none", ret |-> None]

\* A faulty variant of doubly_append, which C24 must tell from it:
\* `(*new_node_ptr).previous = Some(Box::from_raw(current))` is left out.
doubly_append_previous_unset(s, value, a) ==
    LET h1 == [s.heap EXCEPT ![a] = DoublyNode(value)]
        current == s.tail
        linked ==
            IF s.head = NULL
            THEN [s EXCEPT !.heap = h1, !.head = a, !.tail = a]
            ELSE IF current # NULL
            THEN [s EXCEPT !.heap = [h1 EXCEPT ![current].next = a], !.tail = a]
            ELSE [s EXCEPT !.heap = h1]
    IN Return(AddOne(linked), None)

\* KolzoDoublyLinkedList::append(value).  On a non-empty list the node tail
\* points to gets the new node as next, and the new node gets a second Box
\* of that node (Box::from_raw(current)) as previous; with head present and
\* tail absent the new node is linked nowhere.  Then length += 1.
doubly_append(s, value, a) ==
    LET h1 == [s.heap EXCEPT ![a] = DoublyNode(value)]
        current == s.tail
        linked ==
            IF s.head = NULL
            THEN [s EXCEPT !.heap = h1, !.head = a, !.tail = a]
            ELSE IF current # NULL
            THEN [s EXCEPT !.heap = [h1 EXCEPT ![current].next = a,
                                               ![a].previous = current],
                           !.tail = a]
            ELSE [s EXCEPT !.heap = h1]
    IN Return(AddOne(linked), None)

\* The owning references to the node n in the list s: head, and the next and
\* the previous links of the allocated nodes, each a Box.
Owners(s, n) ==
    (IF s.head = n THEN {<<"head", NULL>>} ELSE {})
        \cup {<<"next", m>> : m \in {x \in Addr : s.heap[x].alive /\ s.heap[x].next = n}}
        \cup {<<"previous", m>> :
                 m \in {x \in Addr : s.heap[x].alive /\ s.heap[x].previous = n}}

RECURSIVE DropBox(_, _, _)
\* Dropping a Box of the node n, as the compiler's drop glue does it: the
\* node's previous is dropped, then its next, then the node's memory is
\* released.  m is [heap, fault]; depth is the stack left.  Where a node owns
\* its predecessor, which owns it, the calls never return and the stack runs
\* out: the process ends.
DropBox(m, n, depth) ==
    IF n = NULL \/ m.fault # "none" THEN m
    ELSE IF depth = 0 THEN [m EXCEPT !.fault = "crash"]
    ELSE LET p == DropBox(m, m.heap[n].previous, depth - 1)
             q == DropBox(p, p.heap[n].next, depth - 1)
         IN IF q.fault # "none" THEN q
            ELSE [q EXCEPT !.heap = [@ EXCEPT ![n] = DoublyFreed]]

\* The list goes out of scope (KolzoDoublyLinkedList has no Drop impl of its
\* own): its head is dropped.  A chain of distinct nodes needs a depth of at
\* most NumAddr.
doubly_drop(s) ==
    LET m == DropBox([heap |-> s.heap, fault |-> "none"], s.head, NumAddr + 1)
    IN Return([s EXCEPT !.heap = m.heap, !.fault = m.fault], None)

InitDoubly ==
    /\ heap = doubly_new.heap
    /\ head = doubly_new.head
    /\ tail = doubly_new.tail
    /\ length = doubly_new.length
    /\ fault = doubly_new.fault
    /\ ret = doubly_new.ret
    /\ overflow_checks \in BOOLEAN
    /\ trace = <<>>

\* Appends onto new().
DoublyAppend ==
    /\ Following(trace) = 0
    /\ Len(trace) < MaxAppends
    /\ \E value \in Value, a \in FreeAddr(heap) :
           /\ Becomes(doubly_append(State, value, a))
           /\ trace' = Append(trace, Called("append", 0, value, a, ret'))

\* The list built by the appends goes out of scope, as at the end of main.
DoublyDrop ==
    /\ Following(trace) = 0
    /\ Becomes(doubly_drop(State))
    /\ trace' = Append(trace, Called("drop", 0, 0, NULL, ret'))

NextDoubly ==
    \/ DoublyAppend
    \/ DoublyDrop

SpecDoubly == InitDoubly /\ [][NextDoubly]_vars

(***************************************************************************)
(* What the claims speak of.                                                *)
(***************************************************************************)
\* The nodes reachable by following next from head, in order.
Nodes == Chain(heap, head)

\* The element sequence: the data of those nodes.
Elements == [i \in 1..Len(Nodes) |-> heap[Nodes[i]].data]

\* The values appended by the leading appends of trace, in order.
Appended == [i \in 1..LeadingAppends(trace) |-> trace[i].value]

\* What the claims compare of two lists: the elements, the length, the tail,
\* and whether the call ended the process.
Observed(s) ==
    <<[i \in 1..Len(Chain(s.heap, s.head)) |-> s.heap[Chain(s.heap, s.head)[i]].data],
      s.length, s.tail, s.fault>>

(***************************************************************************)
(* The claims.                                                              *)
(***************************************************************************)

\* C1: in every state reachable from new() by the public operations, length
\* equals the number of nodes reachable by following next from head.
C1_LengthCountsNodes == length = Len(Nodes)

\* C2: in every reachable state, if the list is non-empty then tail refers to
\* the node whose next is absent (the last node of the chain from head, the
\* only such node), which is reachable from head.
C2_TailIsLastNode ==
    head # NULL =>
        /\ tail # NULL
        /\ tail = Nodes[Len(Nodes)]
        /\ heap[tail].next = NULL

\* C3: in every reachable state, a present tail refers to a node that is
\* still allocated and owned by the chain rooted at head, never to a node
\* that was dropped.
C3_TailNotStale ==
    tail # NULL =>
        /\ heap[tail].alive
        /\ \E i \in 1..Len(Nodes) : Nodes[i] = tail

\* C4: in every reachable state, `tail is absent', `head is absent' and
\* `length == 0' are all true or all false.
C4_EmptyAgree ==
    /\ (tail = NULL) <=> (head = NULL)
    /\ (head = NULL) <=> (length = 0)

\* C5: in every list state, insert(0, v) leaves the list as prepend(v) would
\* and insert(len(), v) leaves it as append(v) would (elements, length, tail),
\* the empty list included.
C5_InsertAtEnds ==
    fault = "none" /\ length >= 0 =>
        \A value \in Value, a \in FreeAddr(heap), ub \in {"crash", "store"} :
            /\ Observed(insert(State, 0, value, a, ub))
                   = Observed(prepend(State, value, a))
            /\ Observed(insert(State, length, value, a, ub))
                   = Observed(append(State, value, a, ub))

\* C6: no public operation panics in any reachable state with any index: no
\* `length -= 1` is executed while length is 0 (a panic where overflow is
\* checked, a wrap to 2^64 - 1 where it is not).
C6_NoPanic == fault # "panic" /\ length >= 0

\* C7: after N appends onto a new list, for every N >= 0, the length is N and
\* get(i) returns the i-th appended value for every i in [0, N).
C7_AppendsThenGet ==
    Following(trace) = 0 =>
        /\ length = Len(trace)
        /\ \A i \in 0..(Len(trace) - 1) : get(State, i) = Some(trace[i + 1].value)

\* C7's case: three appends have been made onto the new list.
C7_Witness == Following(trace) = 0 /\ Len(trace) = 3

\* C8: on a list built by N appends, N pops return the values in reverse
\* order of insertion, the length dropping by one each time; the next pop
\* returns None and the length is then 0; an append(v) after that yields a
\* one-element list whose get(0) is v.
C8_PopDrainsInReverse ==
    LET n == LeadingAppends(trace)
        k == Following(trace)
    IN /\ AppendsThen(trace, "pop") =>
              /\ \A j \in 1..k :
                     trace[n + j].ret =
                         IF j <= n THEN Some(trace[n + 1 - j].value) ELSE None
              /\ length = IF k <= n THEN n - k ELSE 0
              /\ fault = "none"
       /\ (k = n + 2 /\ Drained(SubSeq(trace, 1, Len(trace) - 1))
               /\ trace[Len(trace)].op = "append") =>
              /\ length = 1
              /\ Len(Nodes) = 1
              /\ get(State, 0) = Some(trace[Len(trace)].value)

\* C8's case: two appends, two pops, the pop that returns None, and an append.
C8_Witness ==
    /\ Len(trace) = 6
    /\ LeadingAppends(trace) = 2
    /\ Drained(SubSeq(trace, 1, 5))
    /\ trace[6].op = "append"

\* C9: on a list built by N appends, N calls of pop_first return the values
\* in insertion order, and the next pop_first returns None.
C9_PopFirstInOrder ==
    LET n == LeadingAppends(trace)
    IN AppendsThen(trace, "pop_first") =>
           \A j \in 1..Following(trace) :
               trace[n + j].ret = IF j <= n THEN Some(trace[j].value) ELSE None

\* C9's case: three appends, three pop_firsts and the one that returns None.
C9_Witness ==
    /\ LeadingAppends(trace) = 3
    /\ AppendsThen(trace, "pop_first")
    /\ Following(trace) = 4

\* C10: for a list built by appends, two reverses restore the element
\* sequence, the result of get(i) for every i, and the node tail refers to
\* (the node of the last append).
C10_ReverseTwice ==
    LET n == LeadingAppends(trace)
    IN (AppendsThen(trace, "reverse") /\ Following(trace) = 2) =>
           /\ Elements = Appended
           /\ \A i \in Index :
                  get(State, i) = IF 0 <= i /\ i < n THEN Some(trace[i + 1].value)
                                                     ELSE None
           /\ tail = IF n = 0 THEN NULL ELSE trace[n].addr
           /\ n > 0 => heap[tail].alive /\ tail = Nodes[Len(Nodes)]
           /\ length = n

\* C10's case: a list of three appended values has been reversed twice.
C10_Witness ==
    /\ LeadingAppends(trace) = 3
    /\ AppendsThen(trace, "reverse")
    /\ Following(trace) = 2

\* The element sequence of the list s.
ElementsOf(s) ==
    [i \in 1..Len(Chain(s.heap, s.head)) |-> s.heap[Chain(s.heap, s.head)[i]].data]

\* The sequence q with the element at position i (from 0) deleted.
Without(q, i) == [j \in 1..(Len(q) - 1) |-> IF j <= i THEN q[j] ELSE q[j + 1]]

\* C11: for a list with element sequence s (length holding its length) and
\* 0 <= index < len(), remove(index) leaves the element sequence s with the
\* element at position index deleted, and the length len() - 1.
C11_RemoveDeletes ==
    (fault = "none" /\ length = Len(Nodes)) =>
        \A index \in Index :
            (0 <= index /\ index < length) =>
                /\ ElementsOf(remove(State, index)) = Without(Elements, index)
                /\ remove(State, index).length = length - 1

\* C12: for a list with element sequence s (length holding its length) and
\* 0 < index < len(), after insert(index, v) get(index) is v, the elements
\* before index stay, those from index on are found one position up by get,
\* and the length is len() + 1.
C12_InsertShifts ==
    (fault = "none" /\ length = Len(Nodes)) =>
        \A index \in Index, value \in Value, a \in FreeAddr(heap),
           ub \in {"crash", "store"} :
            (0 < index /\ index < length) =>
                LET after == insert(State, index, value, a, ub)
                IN /\ get(after, index) = Some(value)
                   /\ \A j \in 0..(index - 1) : get(after, j) = get(State, j)
                   /\ \A j \in index..(length - 1) : get(after, j + 1) = get(State, j)
                   /\ after.length = length + 1

\* C13: in every list state, for every index that is negative or >= len(),
\* get(index) returns None and set(index, v) returns None, and the call
\* changes neither the length, the elements nor the tail (nor anything else).
C13_OutOfRangeGetSet ==
    fault = "none" =>
        \A index \in Index, value \in Value :
            (index < 0 \/ (length >= 0 /\ index >= length)) =>
                /\ get(State, index) = None
                /\ set(State, index, value) = [State EXCEPT !.ret = None]

\* C13's case: a list of two nodes with length 2, where get and set are given
\* the indices 2 and -1 (and index 1 is in range).
C13_Witness ==
    /\ fault = "none" /\ length = 2 /\ Len(Nodes) = 2
    /\ get(State, 2) = None /\ get(State, 0 - 1) = None
    /\ set(State, 2, 1).ret = None /\ set(State, 0 - 1, 1).heap = heap
    /\ get(State, 1) # None

\* C14: for a list with 0 <= index < len(), set(index, v) returns the value
\* that was at index, get(index) then returns v, and the length and the
\* values at all other indices are as before.
C14_SetReplaces ==
    fault = "none" =>
        \A index \in Index, value \in Value :
            (0 <= index /\ index < length) =>
                LET after == set(State, index, value)
                IN /\ index < Len(Nodes)
                   /\ after.ret = Some(Elements[index + 1])
                   /\ get(after, index) = Some(value)
                   /\ after.length = length
                   /\ \A j \in Index \ {index} : get(after, j) = get(State, j)

\* C15: for a list built by appends with element sequence s of length n,
\* after one reverse() the length is still n and get(i) returns s[n-1-i] for
\* every i in [0, n); reversing the empty list leaves it empty.
C15_ReverseOnce ==
    LET n == LeadingAppends(trace)
    IN (AppendsThen(trace, "reverse") /\ Following(trace) = 1) =>
           /\ length = n
           /\ \A i \in 0..(n - 1) : get(State, i) = Some(trace[n - i].value)
           /\ Len(Nodes) = n
           /\ n = 0 => (head = NULL /\ tail = NULL /\ get(State, 0) = None)

\* C15's case: a list of three appended values has been reversed once.
C15_Witness ==
    /\ LeadingAppends(trace) = 3
    /\ AppendsThen(trace, "reverse")
    /\ Following(trace) = 1

\* C16: after N >= 1 prepends onto a new list the length is N, the chain from
\* head holds the values in reverse order of prepending, and tail refers to
\* the node created by the first prepend.
C16_PrependsReversed ==
    LET n == Len(trace)
    IN (n >= 1 /\ LeadingAppends(trace) = 0 /\ AppendsThen(trace, "prepend")) =>
           /\ length = n
           /\ Elements = [i \in 1..n |-> trace[n + 1 - i].value]
           /\ tail = trace[1].addr
           /\ heap[tail].alive /\ tail = Nodes[n]

\* C16's case: three prepends have been made onto the new list.
C16_Witness ==
    /\ Len(trace) = 3
    /\ \A i \in 1..3 : trace[i].op = "prepend"

\* C17: on an empty list pop() and pop_first() both return None and leave
\* head absent, tail absent and length 0 (and nothing else changes either).
C17_PopsOnEmpty ==
    (fault = "none" /\ head = NULL /\ tail = NULL /\ length = 0) =>
        /\ pop(State) = [State EXCEPT !.ret = None]
        /\ pop_first(State) = [State EXCEPT !.ret = None]
        /\ pop(State).ret = None /\ pop_first(State).ret = None
        /\ pop(State).head = NULL /\ pop_first(State).head = NULL
        /\ pop(State).tail = NULL /\ pop_first(State).tail = NULL
        /\ pop(State).length = 0 /\ pop_first(State).length = 0
        /\ pop(State).fault = "none" /\ pop_first(State).fault = "none"

\* C17's case: a list emptied again by a call that returned its last value,
\* on which pop and pop_first then return None.
C17_Witness ==
    /\ fault = "none" /\ head = NULL /\ tail = NULL /\ length = 0
    /\ ret # None
    /\ pop(State).ret = None
    /\ pop_first(State).ret = None

\* C18: insert(index, v) with index negative or index > len(), and
\* remove(index) with index negative or index >= len(), are no-ops: the
\* length, the element sequence and the tail are all unchanged.
C18_OutOfRangeNoOp ==
    fault = "none" =>
        \A index \in Index :
            /\ (index < 0 \/ (length >= 0 /\ index > length)) =>
                   \A value \in Value, a \in FreeAddr(heap), ub \in {"crash", "store"} :
                       LET after == insert(State, index, value, a, ub)
                       IN /\ after.length = length
                          /\ ElementsOf(after) = Elements
                          /\ after.tail = tail
                          /\ after.fault = "none"
            /\ (index < 0 \/ (length >= 0 /\ index >= length)) =>
                   LET after == remove(State, index)
                   IN /\ after.length = length
                      /\ ElementsOf(after) = Elements
                      /\ after.tail = tail
                      /\ after.fault = "none"

\* C18's case: on a list of two nodes, insert at 3 and at -1 and remove at 2
\* and at -1 change nothing, while remove at 1 does.
C18_Witness ==
    /\ fault = "none" /\ length = 2 /\ Len(Nodes) = 2
    /\ \E a \in FreeAddr(heap) :
           /\ insert(State, 3, 1, a, "store").heap = heap
           /\ insert(State, 0 - 1, 1, a, "store").length = 2
    /\ remove(State, 2).length = 2
    /\ remove(State, 0 - 1).heap = heap
    /\ remove(State, 1).length = 1

\* C19: after reverse() on a non-empty list, tail refers to the node that
\* was the first node (head) before the call.
C19_TailIsFormerHead ==
    (fault = "none" /\ head # NULL) => reverse(State).tail = head

\* C20: pop_first() on a non-empty list decreases the length by exactly 1,
\* makes head the former second node, and clears tail exactly when the list
\* becomes empty.
C20_PopFirstShrinks ==
    (fault = "none" /\ head # NULL) =>
        LET after == pop_first(State)
        IN /\ after.length = length - 1
           /\ after.head = heap[head].next
           /\ (after.tail = NULL) <=> (after.head = NULL)

\* C21: after remove(len() - 1) on a list with at least two elements, the
\* removed node is no longer reachable from head, tail refers to the new
\* final node, whose next is absent, and an immediately following pop()
\* returns the value of that new final element, not the removed value.
C21_RemoveLastUnlinks ==
    (fault = "none" /\ length = Len(Nodes) /\ length >= 2) =>
        LET after == remove(State, length - 1)
        IN /\ \A i \in 1..Len(Chain(after.heap, after.head)) :
                  Chain(after.heap, after.head)[i] # Nodes[length]
           /\ after.tail = Nodes[length - 1]
           /\ after.heap[after.tail].next = NULL
           /\ pop(after).ret = Some(Elements[length - 1])

\* The sequence q backwards.
Reversed(q) == [i \in 1..Len(q) |-> q[Len(q) + 1 - i]]

\* C22: for a list built by appends with element sequence s of length
\* n >= 2, reverse() followed by append(v) yields a list whose chain from
\* head is reverse(s) followed by v, with length n + 1.
C22_ReverseThenAppend ==
    (fault = "none" /\ LeadingAppends(trace) = Len(trace) /\ Len(trace) >= 2) =>
        \A value \in Value, a \in FreeAddr(reverse(State).heap), ub \in {"crash", "store"} :
            LET after == append(reverse(State), value, a, ub)
            IN /\ ElementsOf(after) = Append(Reversed(Elements), value)
               /\ after.length = length + 1

\* C23: in every state of the doubly linked list reachable from new() by
\* appends, every node is the target of exactly one owning reference (the
\* head field or one node's next link); a node's previous link never owns
\* its predecessor, so releasing the list releases each node exactly once.
C23_EachNodeOwnedOnce ==
    (fault = "none" /\ Following(trace) = 0) =>
        /\ \A n \in Addr :
               heap[n].alive =>
                   /\ Cardinality(Owners(State, n)) = 1
                   /\ \A o \in Owners(State, n) : o[1] \in {"head", "next"}
        /\ doubly_drop(State).fault = "none"
        /\ \A n \in Addr : ~doubly_drop(State).heap[n].alive

\* C24: after any sequence of N >= 1 appends on a new doubly linked list,
\* the length is N, tail refers to the node of the last append, the first
\* node's previous is absent, and every other node's previous refers to its
\* immediate predecessor in the next-chain.
C24_PreviousIsPredecessor ==
    LET n == Len(trace)
    IN (n >= 1 /\ Following(trace) = 0) =>
           /\ fault = "none"
           /\ length = n
           /\ Len(Nodes) = n
           /\ tail = trace[n].addr /\ tail = Nodes[n]
           /\ heap[Nodes[1]].previous = NULL
           /\ \A i \in 2..n : heap[Nodes[i]].previous = Nodes[i - 1]
           /\ \A i \in 1..n : Nodes[i] = trace[i].addr

\* C24's case: three appends have been made onto the new doubly linked list.
C24_Witness ==
    /\ Len(trace) = 3 /\ Following(trace) = 0
    /\ heap[tail].previous # NULL
    /\ heap[heap[tail].previous].previous = head

=============================================================================
